---- MODULE Spec2Model ----
(***************************************************************************)
(* MotorCalc (src/src/main.cpp): one interactive session of the brushed DC *)
(* motor calculator: terminal bootstrap, the ValueSet prompts, the range   *)
(* checks and clamping of main(), findMax, the Values constructor, the     *)
(* result display and the closing pause().                                 *)
(*                                                                         *)
(* FloatType is long double, the x87 extended format: every literal, every *)
(* value read from the prompts and the result of every +, -, *, / and      *)
(* sqrtl is rounded to the nearest value with a 64-bit significand, ties   *)
(* to even.  A finite value is kept as sign * n / d with d a power of two  *)
(* and n, d naturals of arbitrary size (limb sequences); division by zero  *)
(* gives +-inf and NaN, which propagate as in IEEE arithmetic.  The        *)
(* exponent range (overflow, subnormals) and the sign of zero are not      *)
(* modelled.                                                               *)
(***************************************************************************)
EXTENDS Integers, Sequences, FiniteSets, TLC

-----------------------------------------------------------------------------
(* Naturals of arbitrary size: little-endian limb sequences, << >> is 0.   *)

Base == 16384
LimbBits == CHOOSE k \in 1..30 : 2^k = Base

RECURSIVE NFromInt(_)
NFromInt(i) ==
    IF i = 0 THEN << >> ELSE <<i % Base>> \o NFromInt(i \div Base)

RECURSIVE NStrip(_)
NStrip(a) ==
    IF a = << >> THEN a
    ELSE IF a[Len(a)] = 0 THEN NStrip(SubSeq(a, 1, Len(a) - 1)) ELSE a

RECURSIVE NAddC(_, _, _)
NAddC(a, b, c) ==
    IF a = << >> /\ b = << >> THEN (IF c = 0 THEN << >> ELSE <<c>>)
    ELSE LET x == IF a = << >> THEN 0 ELSE Head(a)
             y == IF b = << >> THEN 0 ELSE Head(b)
             s == x + y + c
         IN  <<s % Base>> \o NAddC(IF a = << >> THEN a ELSE Tail(a),
                                   IF b = << >> THEN b ELSE Tail(b),
                                   s \div Base)

NAdd(a, b) == NAddC(a, b, 0)

RECURSIVE NSubB(_, _, _)
NSubB(a, b, c) ==
    IF a = << >> THEN << >>
    ELSE LET y == IF b = << >> THEN 0 ELSE Head(b)
             t == Head(a) - y - c
         IN  IF t < 0
             THEN <<t + Base>> \o NSubB(Tail(a), IF b = << >> THEN b ELSE Tail(b), 1)
             ELSE <<t>> \o NSubB(Tail(a), IF b = << >> THEN b ELSE Tail(b), 0)

\* a - b for a >= b
NSub(a, b) == NStrip(NSubB(a, b, 0))

RECURSIVE NCmpAt(_, _, _)
NCmpAt(a, b, i) ==
    IF i = 0 THEN 0
    ELSE IF a[i] > b[i] THEN 1
    ELSE IF a[i] < b[i] THEN -1
    ELSE NCmpAt(a, b, i - 1)

\* -1, 0, 1 as a < b, a = b, a > b
NCmp(a, b) ==
    IF Len(a) > Len(b) THEN 1
    ELSE IF Len(a) < Len(b) THEN -1
    ELSE NCmpAt(a, b, Len(a))

RECURSIVE NMulLimb(_, _, _)
NMulLimb(a, m, c) ==
    IF a = << >> THEN (IF c = 0 THEN << >> ELSE <<c>>)
    ELSE LET p == Head(a) * m + c
         IN  <<p % Base>> \o NMulLimb(Tail(a), m, p \div Base)

RECURSIVE NMulR(_, _)
NMulR(a, b) ==
    IF b = << >> THEN << >>
    ELSE NAdd(NMulLimb(a, Head(b), 0), <<0>> \o NMulR(a, Tail(b)))

NMul(a, b) == IF a = << >> \/ b = << >> THEN << >> ELSE NStrip(NMulR(a, b))

RECURSIVE NPow10(_)
NPow10(k) == IF k = 0 THEN NFromInt(1) ELSE NMul(NFromInt(10), NPow10(k - 1))

\* 2^k
NPow2(k) ==
    [j \in 1..(k \div LimbBits) + 1 |->
        IF j = (k \div LimbBits) + 1 THEN 2^(k % LimbBits) ELSE 0]

\* the number of binary digits of a > 0
NBitLen(a) ==
    (Len(a) - 1) * LimbBits
    + (CHOOSE k \in 1..LimbBits : 2^(k - 1) <= a[Len(a)] /\ a[Len(a)] < 2^k)

\* a div m for a divisor m of Base
NDivSmall(a, m) ==
    NStrip([i \in 1..Len(a) |->
               (a[i] \div m)
               + (IF i < Len(a) THEN (a[i + 1] % m) * (Base \div m) ELSE 0)])

\* <<n, d>> with the common factors m, m / 2, ..., 2 cancelled, m a divisor
\* of Base
RECURSIVE NCancel(_, _)
NCancel(nd, m) ==
    IF Head(nd[1]) % m = 0 /\ Head(nd[2]) % m = 0
    THEN NCancel(<<NDivSmall(nd[1], m), NDivSmall(nd[2], m)>>, m)
    ELSE IF m > 2 THEN NCancel(nd, m \div 2)
    ELSE nd

\* <<n, d>> with the common factors 2 cancelled, for n, d > 0
NReduce(n, d) == NCancel(<<n, d>>, Base)

\* largest q in lo..hi with q * b <= r
RECURSIVE NDivDigit(_, _, _, _)
NDivDigit(r, b, lo, hi) ==
    IF lo >= hi THEN lo
    ELSE LET mid == (lo + hi + 1) \div 2
         IN  IF NCmp(NMul(b, NFromInt(mid)), r) <= 0
             THEN NDivDigit(r, b, mid, hi)
             ELSE NDivDigit(r, b, lo, mid - 1)

\* the limbs of r from position i upwards, as a number (at most two limbs)
NTop(r, i) ==
    (IF Len(r) > i THEN r[i + 1] * Base ELSE 0) + (IF Len(r) >= i THEN r[i] ELSE 0)

\* the quotient limb r div b for r < b * Base; the leading limbs rt of r and
\* bt of b bound it
NDivLimb(r, b, rt, bt) ==
    NDivDigit(r, b, rt \div (bt + 1),
              IF (rt + 1) \div bt < Base THEN (rt + 1) \div bt ELSE Base - 1)

\* <<quotient, remainder>> once the quotient limb q of the remainder r is known
NDivModPut(quot, r, b, q) ==
    <<NStrip(<<q>> \o quot), NSub(r, NMul(b, NFromInt(q)))>>

NDivModStep(quot, r, b) ==
    NDivModPut(quot, r, b, NDivLimb(r, b, NTop(r, Len(b)), b[Len(b)]))

\* long division: qr is <<quotient, remainder>> of the limbs of a above i
RECURSIVE NDivModFrom(_, _, _, _)
NDivModFrom(a, b, i, qr) ==
    IF i = 0 \/ Len(qr) # 2 THEN qr
    ELSE NDivModFrom(a, b, i - 1,
                     NDivModStep(qr[1], NStrip(<<a[i]>> \o qr[2]), b))

\* <<a div b, a mod b>> for b > 0 by long division; both are scaled by f so
\* that the leading limb of the divisor is at least Base / 2
\* the remainder of a division scaled by f, scaled back
NUnscale(qr, f) == <<qr[1], NDivSmall(qr[2], f)>>

NDivModScaled(a, b, f) ==
    NUnscale(NDivModFrom(a, b, Len(a), << << >>, << >> >>), f)

NDivModBy(a, b, f) == NDivModScaled(NMulLimb(a, f, 0), NMulLimb(b, f, 0), f)

NDivModLong(a, b) == NDivModBy(a, b, 2^(Len(b) * LimbBits - NBitLen(b)))

NIsPow2(b) == b = NPow2(NBitLen(b) - 1)

\* <<a div 2^k, a mod 2^k>>: the limbs above and below binary digit k
NDivModPow2(a, k) ==
    <<NDivSmall(SubSeq(a, (k \div LimbBits) + 1, Len(a)), 2^(k % LimbBits)),
      NStrip([i \in 1..(IF Len(a) > k \div LimbBits
                        THEN (k \div LimbBits) + 1 ELSE Len(a)) |->
                 IF i = (k \div LimbBits) + 1
                 THEN a[i] % 2^(k % LimbBits) ELSE a[i]])>>

\* <<a div b, a mod b>> for b > 0
NDivMod(a, b) ==
    IF NIsPow2(b) THEN NDivModPow2(a, NBitLen(b) - 1) ELSE NDivModLong(a, b)

\* largest q in lo..hi with (r + q*unit)^2 <= n
RECURSIVE NSqrtDigit(_, _, _, _, _)
NSqrtDigit(n, r, unit, lo, hi) ==
    IF lo = hi THEN lo
    ELSE LET mid == (lo + hi + 1) \div 2
             t   == NAdd(r, NMul(unit, NFromInt(mid)))
         IN  IF NCmp(NMul(t, t), n) <= 0
             THEN NSqrtDigit(n, r, unit, mid, hi)
             ELSE NSqrtDigit(n, r, unit, lo, mid - 1)

RECURSIVE NSqrtFrom(_, _, _)
NSqrtFrom(n, r, i) ==
    IF i = 0 \/ Len(r) > Len(n) THEN r
    ELSE LET unit == [j \in 1..i |-> IF j = i THEN 1 ELSE 0]
             q    == NSqrtDigit(n, r, unit, 0, Base - 1)
         IN  NSqrtFrom(n, NAdd(r, NMul(unit, NFromInt(q))), i - 1)

\* floor of the square root
NSqrt(n) == NSqrtFrom(n, << >>, (Len(n) + 1) \div 2)

-----------------------------------------------------------------------------
(* FloatType: long double values, +-inf and NaN.                           *)

\* binary digits of the significand of a long double
MantissaBits == 64

NaN == [k |-> "nan", s |-> 0, n |-> << >>, d |-> << >>]
Inf(sg) == [k |-> "inf", s |-> sg, n |-> << >>, d |-> << >>]

Zero == [k |-> "fin", s |-> 0, n |-> << >>, d |-> <<1>>]

\* the value sg * num / den as it stands, in lowest terms of 2
Fin(sg, num, den) ==
    IF num = << >> THEN Zero
    ELSE LET nd == NReduce(num, den)
         IN  [k |-> "fin", s |-> sg, n |-> nd[1], d |-> nd[2]]

\* sg * m * 2^-e
Dyadic(sg, m, e) ==
    Fin(sg, IF e < 0 THEN NMul(m, NPow2(0 - e)) ELSE m,
            IF e > 0 THEN NPow2(e) ELSE NFromInt(1))

\* num * 2^s, or num where s < 0
NScaleUp(num, s) == IF s >= 0 THEN NMul(num, NPow2(s)) ELSE num
\* den * 2^-s, or den where s >= 0
NScaleDown(den, s) == IF s >= 0 THEN den ELSE NMul(den, NPow2(0 - s))

\* sg * q * 2^-e with the 64-digit quotient q rounded up when the remainder
\* is above half the divisor (half == 1), or is half of it and q is odd
RoundQuotient(sg, q, half, e) ==
    Dyadic(sg,
           IF half > 0 \/ (half = 0 /\ Head(q) % 2 = 1)
           THEN NAdd(q, NFromInt(1)) ELSE q,
           e)

RoundRemainder(sg, qr, den, e) ==
    RoundQuotient(sg, qr[1], NCmp(NAdd(qr[2], qr[2]), den), e)

RoundDivision(sg, num, den, e) == RoundRemainder(sg, NDivMod(num, den), den, e)

\* sg * (num / den) * 2^-e for num / den in [2^63, 2^65): by 2 * den where
\* the quotient has 65 digits (h == 1)
RoundScaled(sg, num, den, e, h) == RoundDivision(sg, num, NMulLimb(den, 1 + h, 0), e - h)

\* num / den lies in (2^(k-1), 2^(k+1))
RoundShifted(sg, num, den, e) ==
    RoundScaled(sg, num, den, e,
                IF NCmp(num, NMul(den, NPow2(MantissaBits))) >= 0 THEN 1 ELSE 0)

RoundAt(sg, num, den, e) ==
    RoundShifted(sg, NScaleUp(num, e), NScaleDown(den, e), e)

\* sg * num / den rounded to the nearest long double, ties to even
Round(sg, num, den) ==
    IF num = << >> THEN Zero
    ELSE IF NBitLen(num) <= MantissaBits /\ NIsPow2(den) THEN Fin(sg, num, den)
    ELSE RoundAt(sg, num, den, MantissaBits - (NBitLen(num) - NBitLen(den)))

\* the decimal literal or typed number m * 10^-p
Dec(m, p) ==
    Round(IF m < 0 THEN -1 ELSE 1, NFromInt(IF m < 0 THEN 0 - m ELSE m), NPow10(p))
\* the integer literal or typed integer m
RInt(m) ==
    Fin(IF m < 0 THEN -1 ELSE 1, NFromInt(IF m < 0 THEN 0 - m ELSE m), NFromInt(1))
\* the typed number m * 10^p
Sci(m, p) == Round(1, NMul(NFromInt(m), NPow10(p)), NFromInt(1))

IsFinite(a) == a.k = "fin"
IsNaN(a) == a.k = "nan"
IsZero(a) == a.k = "fin" /\ a.s = 0

RNeg(a) == [a EXCEPT !.s = 0 - a.s]

RMul(a, b) ==
    IF a.k = "nan" \/ b.k = "nan" THEN NaN
    ELSE IF a.k = "inf" \/ b.k = "inf"
         THEN (IF a.s = 0 \/ b.s = 0 THEN NaN ELSE Inf(a.s * b.s))
    ELSE Round(a.s * b.s, NMul(a.n, b.n), NMul(a.d, b.d))

RDiv(a, b) ==
    IF a.k = "nan" \/ b.k = "nan" THEN NaN
    ELSE IF a.k = "inf"
         THEN (IF b.k = "inf" THEN NaN ELSE Inf(IF b.s < 0 THEN 0 - a.s ELSE a.s))
    ELSE IF b.k = "inf" THEN Zero
    ELSE IF b.s = 0 THEN (IF a.s = 0 THEN NaN ELSE Inf(a.s))
    ELSE Round(a.s * b.s, NMul(a.n, b.d), NMul(a.d, b.n))

\* sa * x / d + sb * y / d
RSum(sa, x, sb, y, d) ==
    Round(IF sa = sb \/ NCmp(x, y) >= 0 THEN sa ELSE sb,
          IF sa = sb THEN NAdd(x, y)
          ELSE IF NCmp(x, y) >= 0 THEN NSub(x, y) ELSE NSub(y, x),
          d)

RAdd(a, b) ==
    IF a.k = "nan" \/ b.k = "nan" THEN NaN
    ELSE IF a.k = "inf"
         THEN (IF b.k = "inf" /\ b.s # a.s THEN NaN ELSE a)
    ELSE IF b.k = "inf" THEN b
    ELSE IF a.s = 0 THEN b
    ELSE IF b.s = 0 THEN a
    ELSE RSum(a.s, NMul(a.n, b.d), b.s, NMul(b.n, a.d), NMul(a.d, b.d))

RSub(a, b) == RAdd(a, RNeg(b))

\* -1, 0, 1 as a < b, a = b, a > b; 2 when unordered (a NaN operand)
RCmp(a, b) ==
    IF a.k = "nan" \/ b.k = "nan" THEN 2
    ELSE IF a.k = "inf" THEN (IF b.k = "inf" /\ b.s = a.s THEN 0 ELSE a.s)
    ELSE IF b.k = "inf" THEN 0 - b.s
    ELSE IF a.s # b.s THEN (IF a.s < b.s THEN -1 ELSE 1)
    ELSE IF a.s = 0 THEN 0
    ELSE a.s * NCmp(NMul(a.n, b.d), NMul(b.n, a.d))

RLt(a, b) == RCmp(a, b) = -1
RGt(a, b) == RCmp(a, b) = 1
RLe(a, b) == RCmp(a, b) \in {-1, 0}
RGe(a, b) == RCmp(a, b) \in {0, 1}
REq(a, b) == RCmp(a, b) = 0

\* the root q of x, rounded up when x > q^2 + q, times 2^-s
SqrtRound(x, q, s) ==
    Dyadic(1, IF NCmp(x, NAdd(NMul(q, q), q)) > 0 THEN NAdd(q, NFromInt(1)) ELSE q, s)

SqrtScaled(x, s) == SqrtRound(x, NSqrt(x), s)

\* a = num / den, 4^s * a in [2^126, 2^128)
SqrtAt(num, den, s) ==
    SqrtScaled(NDivMod(NScaleUp(num, 2 * s), NScaleDown(den, 2 * s))[1], s)

\* sqrtl: the root rounded to the nearest long double.  With 4^s * a in
\* [2^126, 2^128) an integer x, the root of x has 64 binary digits and is
\* rounded up exactly when x > q^2 + q for q its integer part.
Sqrtl(a) ==
    IF a.k = "nan" THEN NaN
    ELSE IF a.s < 0 THEN NaN
    ELSE IF a.k = "inf" THEN a
    ELSE IF a.s = 0 THEN Zero
    ELSE SqrtAt(a.n, a.d,
                (2 * MantissaBits - 1 - (NBitLen(a.n) - NBitLen(a.d))) \div 2)

\* M_PIl = 3.141592653589793238462643383279502884L
LD_PI ==
    Round(1, NAdd(NMul(NAdd(NMul(NFromInt(314159265), NPow10(9)),
                            NFromInt(358979323)), NPow10(9)),
                  NFromInt(846264338)),
          NPow10(26))

-----------------------------------------------------------------------------
(* What the user can type at the prompts.                                  *)

Malformed == [k |-> "bad", s |-> 0, n |-> << >>, d |-> << >>]
Unset == [k |-> "unset", s |-> 0, n |-> << >>, d |-> << >>]

KvEntries == {RInt(1000), RInt(0), Malformed}
VoltageEntries == {Dec(111, 1), Dec(165, 2), Dec(346, 2), Sci(1, 17), RInt(0)}
CellEntries == {RInt(3), Dec(-1, 0)}
NoLoadCurrentEntries ==
    {RInt(0), Dec(5, 1), Dec(3, 1), RInt(5), Dec(16499, 4), Sci(1, 17), Dec(-5, 1)}
MaxCurrentEntries ==
    {Dec(5005, 3), Dec(31, 2), RInt(20), Dec(346, 1), Sci(2, 17), RInt(0)}
ArmatureREntries == {RInt(0), RInt(100), RInt(1000), Malformed}
YesNoEntries == {"yes", "y", "no", "n", "maybe"}

\* what the two members of a Values object that are never assigned may hold
Indeterminate ==
    {[rpm |-> Zero, torque |-> Zero], [rpm |-> Dec(-15, 1), torque |-> Dec(25, 2)]}

\* most invalid entries in a row at one prompt
MaxRetries == 1
\* most keys other than Esc and Enter read by one pause()
MaxOtherKeys == 1
\* sampling points per unit of the grid on [noLoadCurrent + 1e-4, maxCurrent]
GridN == 10

NumTermOptions == 4

-----------------------------------------------------------------------------
(* ValueSet, findMax, Values.                                              *)

\* requestInput: the test that ends the prompt loop for an arithmetic T
Accepted(var, NoZero) ==
    /\ var.k = "fin"
    /\ IF NoZero THEN RGt(var, Zero) ELSE RGe(var, Zero)

\* requestInput<bool>: the accepted answers
AcceptedYesNo(yesNo) == yesNo \in {"yes", "y", "no", "n"}
YesNoValue(yesNo) == yesNo \in {"yes", "y"}

OzInToNm ==
    Round(1, NAdd(NMul(NFromInt(706155181), NPow10(9)), NFromInt(422604375)), NPow10(20))

Kt(kv) == RMul(RDiv(RInt(1352), kv), OzInToNm)

LiPoVoltage(cells) == RMul(cells, Dec(37, 1))

motorPower(values, torque) ==
    LET current == RAdd(RDiv(torque, values.kt), values.noLoadCurrent)
        rpm     == RMul(values.kv,
                        RSub(values.voltage,
                             RDiv(RMul(current, values.armatureR), RInt(1000))))
    IN  RDiv(RMul(RMul(torque, rpm), LD_PI), RInt(30))

findMax(values, val) ==
    LET shortCircuit == RDiv(RMul(RInt(1000), values.voltage), values.armatureR)
    IN  IF val = "Power"
        THEN RDiv(RAdd(values.noLoadCurrent, shortCircuit), RInt(2))
        ELSE Sqrtl(RMul(values.noLoadCurrent, shortCircuit))

\* Values::Values: the members the constructor assigns; rpm and torque are
\* not among them
Values(values, currentIn) ==
    LET powerOut == motorPower(values, currentIn)
        powerIn  == RMul(values.voltage, currentIn)
    IN  [current    |-> currentIn,
         powerIn    |-> powerIn,
         powerOut   |-> powerOut,
         efficiency |-> RDiv(RMul(powerOut, RInt(100)), powerIn)]

NoValues ==
    [current |-> Unset, rpm |-> Unset, torque |-> Unset,
     powerIn |-> Unset, powerOut |-> Unset, efficiency |-> Unset]

\* the range check with the threshold .001
TooNarrowRange_Threshold(values) ==
    RLt(RSub(values.maxCurrent, values.noLoadCurrent), Dec(1, 3))

\* main: maxCurrent - noLoadCurrent < .01
TooNarrowRange(values) ==
    RLt(RSub(values.maxCurrent, values.noLoadCurrent), Dec(1, 2))

\* the open-circuit check at noLoadCurrent itself, without the .0001
OpenCircuitAtNoLoad_NoEps(values) ==
    RGt(RDiv(RMul(values.noLoadCurrent, values.armatureR), RInt(1000)),
        values.voltage)

\* main: (noLoadCurrent + .0001) * armatureR / 1000 > voltage
OpenCircuitAtNoLoad(values) ==
    RGt(RDiv(RMul(RAdd(values.noLoadCurrent, Dec(1, 4)), values.armatureR), RInt(1000)),
        values.voltage)

\* main: maxCurrent * armatureR / 1000 >= voltage
OpenCircuitAtMax(values) ==
    RGe(RDiv(RMul(values.maxCurrent, values.armatureR), RInt(1000)), values.voltage)

\* the reduced maxCurrent without the .0001
ClampedMaxCurrent_NoEps(values) ==
    RDiv(values.voltage, RDiv(values.armatureR, RInt(1000)))

\* main: voltage / (armatureR / 1000) + .0001
ClampedMaxCurrent(values) ==
    RAdd(RDiv(values.voltage, RDiv(values.armatureR, RInt(1000))), Dec(1, 4))

-----------------------------------------------------------------------------
(* The process.                                                            *)

VARIABLES pc, termIdx, values, printedLines, maxPower, maxEfficiency, out,
          keysRead, pauseResult, errno, status

vars == <<pc, termIdx, values, printedLines, maxPower, maxEfficiency, out,
          keysRead, pauseResult, errno, status>>

Init ==
    /\ pc = "main"
    /\ termIdx = 0
    /\ values = [kv |-> Unset, kt |-> Unset, voltage |-> Unset,
                 noLoadCurrent |-> Unset, maxCurrent |-> Unset, armatureR |-> Unset]
    /\ printedLines = 0
    /\ maxPower = NoValues
    /\ maxEfficiency = NoValues
    /\ out = {}
    /\ keysRead = 0
    /\ pauseResult = 0
    /\ errno = "0"
    /\ status = "running"

\* main: the isatty switch
Bootstrap ==
    /\ pc = "main"
    /\ \E ttys \in 0..2 :
          /\ pc' = IF ttys = 2 THEN "kv" ELSE "exec"
          /\ out' = IF ttys = 1 THEN out \cup {"StartingTerminal"} ELSE out
    /\ UNCHANGED <<termIdx, values, printedLines, maxPower, maxEfficiency,
                   keysRead, pauseResult, errno, status>>

\* main: one round of the loop over termOptions
ExecTerminal ==
    /\ pc = "exec"
    /\ \E res \in {"replaced", "ENOENT", "EIO"} :
          IF res = "replaced"
          THEN /\ pc' = "exit" /\ status' = "replaced"
               /\ UNCHANGED <<termIdx, errno>>
          ELSE IF res = "EIO"
          THEN /\ pc' = "exit" /\ status' = "-errno" /\ errno' = "EIO"
               /\ UNCHANGED termIdx
          ELSE IF termIdx + 1 = NumTermOptions
          THEN /\ pc' = "exit" /\ status' = "EXIT_FAILURE"
               /\ termIdx' = termIdx + 1
               /\ errno' = "ENOENT"
          ELSE /\ termIdx' = termIdx + 1
               /\ errno' = "ENOENT"
               /\ UNCHANGED <<pc, status>>
    /\ UNCHANGED <<values, printedLines, maxPower, maxEfficiency, out,
                   keysRead, pauseResult>>

\* ValueSet: the member initializers, given what requestInput returned
Store(member, var) ==
    IF member = "kv" THEN [values EXCEPT !.kv = var, !.kt = Kt(var)]
    ELSE IF member = "cells" THEN [values EXCEPT !.voltage = LiPoVoltage(var)]
    ELSE [values EXCEPT ![member] = var]

\* requestInput<FloatType, NoZero>: one line typed at the prompt
RequestInput(at, entries, NoZero, next) ==
    /\ pc = at
    /\ \E var \in entries :
          IF Accepted(var, NoZero)
          THEN /\ values' = Store(at, var)
               /\ printedLines' = 0
               /\ pc' = next
               /\ out' = out
          ELSE /\ printedLines < 2 * MaxRetries
               /\ printedLines' = printedLines + 2
               /\ out' = out \cup {"InvalidEntry"}
               /\ UNCHANGED <<pc, values>>
    /\ UNCHANGED <<termIdx, maxPower, maxEfficiency, keysRead, pauseResult,
                   errno, status>>

\* requestInput<bool>: one line typed at a yes/no prompt
RequestYesNo(at, yes, no, noOut) ==
    /\ pc = at
    /\ \E yesNo \in YesNoEntries :
          IF AcceptedYesNo(yesNo)
          THEN /\ printedLines' = 0
               /\ pc' = IF YesNoValue(yesNo) THEN yes ELSE no
               /\ out' = IF YesNoValue(yesNo) THEN out ELSE out \cup noOut
          ELSE /\ printedLines < 2 * MaxRetries
               /\ printedLines' = printedLines + 2
               /\ out' = out \cup {"InvalidEntry"}
               /\ UNCHANGED pc
    /\ UNCHANGED <<termIdx, values, maxPower, maxEfficiency, keysRead,
                   pauseResult, errno, status>>

RequestKv ==
    RequestInput("kv", KvEntries, TRUE, "knowVoltage")

KnowVoltage == RequestYesNo("knowVoltage", "voltage", "knowCells", {})

RequestVoltage ==
    RequestInput("voltage", VoltageEntries, TRUE, "noLoadCurrent")

KnowCells == RequestYesNo("knowCells", "cells", "noInfoPause", {"NotEnoughInfo"})

RequestCells ==
    RequestInput("cells", CellEntries, TRUE, "noLoadCurrent")

RequestNoLoadCurrent ==
    RequestInput("noLoadCurrent", NoLoadCurrentEntries, FALSE, "maxCurrent")

RequestMaxCurrent ==
    RequestInput("maxCurrent", MaxCurrentEntries, TRUE, "armatureR")

RequestArmatureR ==
    RequestInput("armatureR", ArmatureREntries, FALSE, "checkRange")

\* main: the first check
CheckRange ==
    /\ pc = "checkRange"
    /\ IF TooNarrowRange(values)
       THEN /\ out' = out \cup {"ErrorTooNarrow"}
            /\ pc' = "pause"
       ELSE /\ pc' = "checkOpenCircuit"
            /\ out' = out
    /\ UNCHANGED <<termIdx, values, printedLines, maxPower, maxEfficiency,
                   keysRead, pauseResult, errno, status>>

\* main: the second check
CheckOpenCircuit ==
    /\ pc = "checkOpenCircuit"
    /\ IF OpenCircuitAtNoLoad(values)
       THEN /\ out' = out \cup {"ErrorOpenCircuit"}
            /\ pc' = "pause"
       ELSE /\ pc' = "clamp"
            /\ out' = out
    /\ UNCHANGED <<termIdx, values, printedLines, maxPower, maxEfficiency,
                   keysRead, pauseResult, errno, status>>

\* main: the third check, which reduces maxCurrent
ClampMaxCurrent ==
    /\ pc = "clamp"
    /\ IF OpenCircuitAtMax(values)
       THEN /\ values' = [values EXCEPT !.maxCurrent = ClampedMaxCurrent(values)]
            /\ out' = out \cup {"WarningClamped"}
       ELSE UNCHANGED <<values, out>>
    /\ pc' = "search"
    /\ UNCHANGED <<termIdx, printedLines, maxPower, maxEfficiency, keysRead,
                   pauseResult, errno, status>>

\* main: the declaration of maxPower and maxEfficiency
Search ==
    /\ pc = "search"
    /\ LET at == [val \in {"Power", "Efficiency"} |->
                     Values(values, findMax(values, val))]
       IN  \E gp \in Indeterminate, ge \in Indeterminate :
              /\ maxPower' = at["Power"] @@ gp
              /\ maxEfficiency' = at["Efficiency"] @@ ge
    /\ pc' = "print"
    /\ UNCHANGED <<termIdx, values, printedLines, out, keysRead, pauseResult,
                   errno, status>>

\* main: the two print() calls
PrintResults ==
    /\ pc = "print"
    /\ out' = out \cup {"AtMaximumOutputPower", "AtMaximumEfficiency"}
    /\ pc' = "pause"
    /\ UNCHANGED <<termIdx, values, printedLines, maxPower, maxEfficiency,
                   keysRead, pauseResult, errno, status>>

\* pause: a key other than Esc and Enter is read, the loop goes on
PauseOtherKey ==
    /\ pc \in {"pause", "noInfoPause"}
    /\ keysRead < MaxOtherKeys
    /\ keysRead' = keysRead + 1
    /\ out' = out \cup {"PressKey"}
    /\ UNCHANGED <<pc, termIdx, values, printedLines, maxPower, maxEfficiency,
                   pauseResult, errno, status>>

\* pause: returns 0 on Esc, 1 on Enter, a negative value on failure
Pause ==
    /\ pc \in {"pause", "noInfoPause"}
    /\ \E res \in {-1, 0, 1}, e \in {"0", "EIO"} :
          /\ res >= 0 => e = errno
          /\ pauseResult' = res
          /\ errno' = e
    /\ out' = out \cup {"PressKey"}
    /\ keysRead' = 0
    /\ pc' = IF pc = "pause" THEN "checkPause" ELSE "noInfoExit"
    /\ UNCHANGED <<termIdx, values, printedLines, maxPower, maxEfficiency, status>>

\* ValueSet, the voltage initializer: std::exit(EXIT_FAILURE) after pause()
NoInfoExit ==
    /\ pc = "noInfoExit"
    /\ pc' = "exit"
    /\ status' = "EXIT_FAILURE"
    /\ UNCHANGED <<termIdx, values, printedLines, maxPower, maxEfficiency, out,
                   keysRead, pauseResult, errno>>

\* CHECK_AND_PAUSE after pause() has returned, and the return that follows
CheckAndPause ==
    /\ pc = "checkPause"
    /\ status' = IF pauseResult < 0
                 THEN (IF errno = "0" THEN "EXIT_FAILURE" ELSE "-errno")
                 ELSE "EXIT_SUCCESS"
    /\ pc' = "exit"
    /\ UNCHANGED <<termIdx, values, printedLines, maxPower, maxEfficiency, out,
                   keysRead, pauseResult, errno>>

Next ==
    \/ Bootstrap
    \/ ExecTerminal
    \/ RequestKv
    \/ KnowVoltage
    \/ RequestVoltage
    \/ KnowCells
    \/ RequestCells
    \/ RequestNoLoadCurrent
    \/ RequestMaxCurrent
    \/ RequestArmatureR
    \/ CheckRange
    \/ CheckOpenCircuit
    \/ ClampMaxCurrent
    \/ Search
    \/ PrintResults
    \/ PauseOtherKey
    \/ Pause
    \/ NoInfoExit
    \/ CheckAndPause

Spec == Init /\ [][Next]_vars

-----------------------------------------------------------------------------
(* Properties.                                                             *)

InputComplete == values.armatureR # Unset
Searched == maxPower # NoValues \/ maxEfficiency # NoValues
SessionEnding == pc \in {"pause", "checkPause", "exit"}
ResultsShown ==
    "AtMaximumOutputPower" \in out \/ "AtMaximumEfficiency" \in out

\* C3: when maxCurrent - noLoadCurrent < 0.01 for the entered parameters
\* (the difference as the program's arithmetic gives it), then once the range
\* check has run the TooNarrowRange error has been
\* reported, the session is ending, findMax has not been invoked and no
\* operating point has been computed or displayed.
C3_TooNarrowRangeRejected ==
    ( /\ InputComplete
      /\ pc # "checkRange"
      /\ "WarningClamped" \notin out
      /\ RLt(RSub(values.maxCurrent, values.noLoadCurrent), Dec(1, 2)) )
    => /\ "ErrorTooNarrow" \in out
       /\ SessionEnding
       /\ ~Searched
       /\ ~ResultsShown

\* the rejection scenario noLoadCurrent = 5, maxCurrent = 5.005 has ended
C3_Witness ==
    /\ pc = "exit"
    /\ status = "EXIT_SUCCESS"
    /\ "ErrorTooNarrow" \in out
    /\ REq(values.noLoadCurrent, RInt(5))
    /\ REq(values.maxCurrent, Dec(5005, 3))

\* C4: when the range check passes and
\* (noLoadCurrent + 1e-4) * armatureResistance / 1000 > voltage (each
\* operation as the program's arithmetic gives it), then once
\* the open-circuit check has run the OpenCircuitAtNoLoad error has been
\* reported, maxCurrent has not been clamped, the session is ending,
\* findMax has not been invoked and no operating point has been computed or
\* displayed.
C4_OpenCircuitRejected ==
    ( /\ InputComplete
      /\ pc \notin {"checkRange", "checkOpenCircuit"}
      /\ RGe(RSub(values.maxCurrent, values.noLoadCurrent), Dec(1, 2))
      /\ RGt(RDiv(RMul(RAdd(values.noLoadCurrent, Dec(1, 4)), values.armatureR),
                  RInt(1000)),
             values.voltage) )
    => /\ "ErrorOpenCircuit" \in out
       /\ "WarningClamped" \notin out
       /\ SessionEnding
       /\ ~Searched
       /\ ~ResultsShown

\* a session rejected right at the boundary (1.65 V, 1.6499 A, 1000 mOhm):
\* no open circuit at noLoadCurrent, an open circuit at noLoadCurrent + 1e-4
C4_Witness ==
    /\ pc = "exit"
    /\ status = "EXIT_SUCCESS"
    /\ "ErrorOpenCircuit" \in out
    /\ RLt(RDiv(RMul(values.noLoadCurrent, values.armatureR), RInt(1000)),
           values.voltage)

\* C5: clamping is the only mutation of the parameters: kv, kt, voltage,
\* noLoadCurrent and armatureResistance never change once entered; maxCurrent
\* changes only in the clamping step, and there only when
\* maxCurrent * armatureResistance / 1000 >= voltage, to
\* voltage / (armatureResistance / 1000) + 1e-4 (each operation as the
\* program's arithmetic gives it), with a warning, and the session continues
\* to the search either way.
C5_ClampOnlyMutation ==
    [][ /\ values.kv # Unset => values'.kv = values.kv /\ values'.kt = values.kt
        /\ values.voltage # Unset => values'.voltage = values.voltage
        /\ values.noLoadCurrent # Unset
              => values'.noLoadCurrent = values.noLoadCurrent
        /\ values.armatureR # Unset => values'.armatureR = values.armatureR
        /\ (values.maxCurrent # Unset /\ pc # "clamp")
              => values'.maxCurrent = values.maxCurrent
        /\ pc = "clamp"
              => /\ pc' = "search"
                 /\ IF RGe(RDiv(RMul(values.maxCurrent, values.armatureR),
                                RInt(1000)),
                           values.voltage)
                    THEN /\ REq(values'.maxCurrent,
                                RAdd(RDiv(values.voltage,
                                          RDiv(values.armatureR, RInt(1000))),
                                     Dec(1, 4)))
                         /\ "WarningClamped" \in out'
                    ELSE /\ values'.maxCurrent = values.maxCurrent
                         /\ "WarningClamped" \notin out'
      ]_vars

\* a maxCurrent above 1.65 A was entered for 1.65 V and 1000 mOhm, is now
\* 1.65 + 1e-4 and the results are on the screen
C5_Witness ==
    /\ pc = "pause"
    /\ ResultsShown
    /\ "WarningClamped" \in out
    /\ REq(values.voltage, Dec(165, 2))
    /\ REq(values.armatureR, RInt(1000))
    /\ RGt(values.maxCurrent, Dec(165, 2))
    /\ RLt(values.maxCurrent, Dec(16502, 4))

-----------------------------------------------------------------------------
(* Statements the code does not satisfy.                                   *)

HardMinCurrent == RAdd(values.noLoadCurrent, Dec(1, 4))

\* the j-th of the GridN + 1 evenly spaced currents of
\* [noLoadCurrent + 1e-4, maxCurrent]
GridCurrent(j) ==
    RAdd(HardMinCurrent,
         RDiv(RMul(RInt(j), RSub(values.maxCurrent, HardMinCurrent)), RInt(GridN)))

PowerOutAt(i) == Values(values, i).powerOut

\* C6: whenever findMax or the Values constructor is or has been invoked,
\* both checks have run without an error, maxCurrent > noLoadCurrent and
\* noLoadCurrent * armatureResistance / 1000 <= voltage.
C6_SearchPrecondition ==
    (pc = "search" \/ Searched)
    => /\ "ErrorTooNarrow" \notin out
       /\ "ErrorOpenCircuit" \notin out
       /\ RGt(values.maxCurrent, values.noLoadCurrent)
       /\ RLe(RDiv(RMul(values.noLoadCurrent, values.armatureR), RInt(1000)),
              values.voltage)

\* C1: once the search has run, no current of the sampling grid on
\* [noLoadCurrent + 1e-4, maxCurrent] has a strictly greater powerOut, as
\* the model evaluation reports it, than the current findMax returned for
\* the power objective.
C1_PowerPeakOptimal ==
    Searched
    => \A j \in 0..GridN : ~RGt(PowerOutAt(GridCurrent(j)), maxPower.powerOut)

\* C2: once the search has run, both returned currents lie within
\* [noLoadCurrent + 1e-4, maxCurrent].
C2_PeakWithinRange ==
    Searched
    => \A r \in {maxPower, maxEfficiency} :
          /\ RLe(HardMinCurrent, r.current)
          /\ RLe(r.current, values.maxCurrent)

RefSpeed(i) ==
    RMul(RSub(values.voltage, RDiv(RMul(i, values.armatureR), RInt(1000))),
         values.kv)
RefTorque(i) == RMul(values.kt, RSub(i, values.noLoadCurrent))
RefPowerOut(i) ==
    RMul(RMul(RefTorque(i), RefSpeed(i)), RDiv(RMul(RInt(2), LD_PI), RInt(60)))
RefPowerIn(i) == RMul(values.voltage, i)
RefEfficiency(i) == RMul(RDiv(RefPowerOut(i), RefPowerIn(i)), RInt(100))

\* C7: once the search has run, every field of both operating points is the
\* one the reference model gives at the point's current: speed, torque,
\* powerOut = torque * speed * 2 pi / 60, powerIn and efficiency.
C7_OperatingPointIsReferenceModel ==
    Searched
    => \A r \in {maxPower, maxEfficiency} :
          /\ REq(r.rpm, RefSpeed(r.current))
          /\ REq(r.torque, RefTorque(r.current))
          /\ REq(r.powerOut, RefPowerOut(r.current))
          /\ REq(r.powerIn, RefPowerIn(r.current))
          /\ REq(r.efficiency, RefEfficiency(r.current))

\* C8: once the search has run, both returned currents are finite and
\* neither operating point was computed with a zero powerIn as divisor.
C8_SearchHasNoErrorOutcome ==
    Searched
    => \A r \in {maxPower, maxEfficiency} :
          /\ IsFinite(r.current)
          /\ ~IsZero(r.powerIn)

\* C9: once the search has run, the efficiency-optimal current is at most
\* the power-optimal current, and when the two differ the efficiency
\* reported at the power-optimal current is strictly less than the one
\* reported at the efficiency-optimal current.
C9_EfficiencyPeakBelowPowerPeak ==
    Searched
    => /\ RLe(maxEfficiency.current, maxPower.current)
       /\ ~REq(maxEfficiency.current, maxPower.current)
             => RLt(maxPower.efficiency, maxEfficiency.efficiency)

\* C10: after the closing pause() of a session, Enter (pause() returned 1)
\* starts a new session at the first prompt, Escape ends the process, and a
\* pause() failure ends it with a failure status.
C10_EnterRestarts ==
    [][ pc = "checkPause"
        => IF pauseResult = 1 THEN pc' = "kv" /\ status' = "running"
           ELSE IF pauseResult = 0 THEN pc' = "exit" /\ status' = "EXIT_SUCCESS"
           ELSE pc' = "exit" /\ status' \in {"EXIT_FAILURE", "-errno"}
      ]_vars

====
